---- MODULE Spec2Model ----
(***************************************************************************)
(* A model of the feed-forward network engine (Node, Link, buildNetwork,   *)
(* forwardProp, backProp, updateWeights) and of the function tables it is  *)
(* configured with.                                                        *)
(*                                                                         *)
(* Numbers.  A JavaScript number is modelled as an exact rational <<n, d>> *)
(* in lowest terms with d > 0.  Two values with d = 0 stand for the        *)
(* non-numbers the code can produce: NaN, and the value `undefined` of a   *)
(* field that was declared but never assigned (totalInput, output).        *)
(* Arithmetic on either gives NaN and every comparison with them is false, *)
(* as in JavaScript.  Rounding and overflow of IEEE doubles are not        *)
(* modelled.                                                               *)
(*                                                                         *)
(* Indices.  Sequences are 1-based: layer L of the model is layerIdx L - 1 *)
(* of the code, node i of a layer is position i - 1.  A Link object is     *)
(* named by its index in `links`, the order of construction.               *)
(***************************************************************************)
EXTENDS Integers, Sequences, FiniteSets, TLC

VARIABLES
  network,   \* Node[][]: the layers, each a sequence of Node records
  links,     \* the Link objects that the nodes' inputLinks/outputs refer to
  config,    \* the arguments of buildNetwork
  call,      \* the last call made on the network, with its arguments and outcome
  batch,     \* history: what the backProp calls since the last updateWeights computed
  backProps, \* history: number of backProp calls so far
  hash,      \* window.location.hash
  state      \* the State that deserializeState returned last

vars == <<network, links, config, call, batch, backProps, hash, state>>

---------------------------------------------------------------------------
(* Bounds of the model *)

MaxBackProps == 2

MaxBuildLayers == 3

MaxBuildSize == 2

\* the most parts (name=value) of the URL hash the page is opened with
MaxHashParts == 2

---------------------------------------------------------------------------
(* Numbers *)

NaN == <<0, 0>>

Undefined == <<1, 0>>

AbsInt(n) == IF n < 0 THEN -n ELSE n

RECURSIVE GCD(_, _)
GCD(a, b) == IF b = 0 THEN a ELSE GCD(b, a % b)

Rat(n, d) ==
  LET s == IF d < 0 THEN -1 ELSE 1
      g == GCD(AbsInt(n), AbsInt(d))
  IN  <<(s * n) \div g, (s * d) \div g>>

Zero == <<0, 1>>

One == <<1, 1>>

IsNum(x) == x[2] # 0

\* x + y over the least common denominator
Add(x, y) ==
  IF IsNum(x) /\ IsNum(y)
  THEN LET g == GCD(x[2], y[2])
       IN  Rat(x[1] * (y[2] \div g) + y[1] * (x[2] \div g), (x[2] \div g) * y[2])
  ELSE NaN

Neg(x) == IF IsNum(x) THEN <<-x[1], x[2]>> ELSE NaN

Sub(x, y) == Add(x, Neg(y))

\* x * y, cancelling common factors before multiplying
Mul(x, y) ==
  IF IsNum(x) /\ IsNum(y)
  THEN LET g1 == GCD(AbsInt(x[1]), y[2])
           g2 == GCD(AbsInt(y[1]), x[2])
       IN  Rat((x[1] \div g1) * (y[1] \div g2), (x[2] \div g2) * (y[2] \div g1))
  ELSE NaN

\* x / y; the code divides only by a positive count or by 1 + e^t
Div(x, y) ==
  IF IsNum(x) /\ IsNum(y) /\ y[1] # 0 THEN Mul(x, Rat(y[2], y[1])) ELSE NaN

Lt(x, y) == IsNum(x) /\ IsNum(y) /\ Sub(x, y)[1] < 0

Le(x, y) == IsNum(x) /\ IsNum(y) /\ Sub(x, y)[1] <= 0

\* e^x for x # 0 is irrational: it has no value in this number domain and is
\* not approximated.  Like NaN it is absorbed by arithmetic and equals no number.
Irrational == <<2, 0>>

\* Math.exp
Exp(x) ==
  IF ~IsNum(x) THEN NaN
  ELSE IF x = Zero THEN One
  ELSE Irrational

\* F(v), with v evaluated once and bound before F is entered (an operator
\* argument is otherwise re-evaluated at each of its uses)
Bind(v, F(_)) == CHOOSE r \in { F(x) : x \in {v} } : TRUE

---------------------------------------------------------------------------
(* Function tables *)

TANH == "tanh"

RELU == "relu"

SIGMOID == "sigmoid"

LINEAR == "linear"

Tanh(x) ==
  LET e2x == Exp(Mul(Rat(2, 1), x))
  IN  Div(Sub(e2x, One), Add(e2x, One))

Sigmoid(x) == Div(One, Add(One, Exp(Neg(x))))

ActivationOutput(a, x) ==
  CASE a = TANH -> Tanh(x)
    [] a = RELU -> IF ~IsNum(x) THEN NaN ELSE IF Lt(Zero, x) THEN x ELSE Zero
    [] a = SIGMOID -> Sigmoid(x)
    [] a = LINEAR -> x

ActivationDer(a, x) ==
  CASE a = TANH -> Sub(One, Mul(Tanh(x), Tanh(x)))
    [] a = RELU -> IF Le(x, Zero) THEN Zero ELSE One
    [] a = SIGMOID -> Mul(Sigmoid(x), Sub(One, Sigmoid(x)))
    [] a = LINEAR -> One

\* Errors.SQUARE.der
SquareDer(output, target) == Sub(output, target)

NoReg == "none"

L1 == "L1"

L2 == "L2"

\* regularization.der(w) of the built-in pairs
RegularizationDer(r, w) ==
  CASE r = L1 -> (IF Lt(w, Zero) THEN Neg(One) ELSE IF Lt(Zero, w) THEN One ELSE Zero)
    [] r = L2 -> w

---------------------------------------------------------------------------
(* Graph model: Node and Link *)

\* Mutant of NewNode: the initZero flag is not looked at
NewNodeIgnoresInitZero(id, activation, initZero) ==
  [ id |-> id,
    inputLinks |-> <<>>,
    bias |-> Rat(1, 10),
    outputs |-> <<>>,
    totalInput |-> Undefined,
    output |-> Undefined,
    outputDer |-> Zero,
    inputDer |-> Zero,
    accInputDer |-> Zero,
    numAccumulatedDers |-> 0,
    activation |-> activation ]

\* new Node(id, activation, initZero)
NewNode(id, activation, initZero) ==
  [ id |-> id,
    inputLinks |-> <<>>,
    bias |-> IF initZero THEN Zero ELSE Rat(1, 10),
    outputs |-> <<>>,
    totalInput |-> Undefined,
    output |-> Undefined,
    outputDer |-> Zero,
    inputDer |-> Zero,
    accInputDer |-> Zero,
    numAccumulatedDers |-> 0,
    activation |-> activation ]

\* new Link(source, dest, regularization, initZero); source and dest are the
\* <<layer, position>> of the two nodes, random is the value Math.random() returns
NewLink(source, dest, sourceId, destId, regularization, initZero, random) ==
  [ id |-> sourceId \o "-" \o destId,
    source |-> source,
    dest |-> dest,
    weight |-> IF initZero THEN Zero ELSE Sub(random, Rat(1, 2)),
    isDead |-> FALSE,
    errorDer |-> Zero,
    accErrorDer |-> Zero,
    numAccumulatedDers |-> 0,
    regularization |-> regularization ]

Digits == <<"0", "1", "2", "3", "4", "5", "6", "7", "8", "9">>

\* Number.prototype.toString of a non-negative integer
RECURSIVE NumToString(_)
NumToString(n) ==
  IF n < 10 THEN Digits[n + 1]
  ELSE NumToString(n \div 10) \o Digits[(n % 10) + 1]

---------------------------------------------------------------------------
(* Network builder.  b is the builder's local state: the layers and links  *)
(* made so far and the id counter; cfg holds the arguments, and            *)
(* cfg.random[k] is what Math.random() returns for the k-th Link.          *)

\* Mutant of AddLink: the link is put in front of the node's inputLinks
AddLinkInFront(b, cfg, layer, i, j) ==
  LET prevNode == b.network[layer - 1][j]
      node == b.network[layer][i]
      k == Len(b.links) + 1
      link == NewLink(<<layer - 1, j>>, <<layer, i>>, prevNode.id, node.id,
                      cfg.regularization, cfg.initZero, cfg.random[k])
  IN  [b EXCEPT !.links = Append(@, link),
                !.network[layer - 1][j].outputs = Append(@, k),
                !.network[layer][i].inputLinks = <<k>> \o @]

\* body of the loop over j: one Link from node j of the previous layer
AddLink(b, cfg, layer, i, j) ==
  LET prevNode == b.network[layer - 1][j]
      node == b.network[layer][i]
      k == Len(b.links) + 1
      link == NewLink(<<layer - 1, j>>, <<layer, i>>, prevNode.id, node.id,
                      cfg.regularization, cfg.initZero, cfg.random[k])
  IN  [b EXCEPT !.links = Append(@, link),
                !.network[layer - 1][j].outputs = Append(@, k),
                !.network[layer][i].inputLinks = Append(@, k)]

RECURSIVE LinkLoop(_, _, _, _, _)
LinkLoop(b, cfg, layer, i, j) ==
  IF j > Len(b.network[layer - 1]) THEN b
  ELSE Bind(AddLink(b, cfg, layer, i, j),
            LAMBDA b1 : LinkLoop(b1, cfg, layer, i, j + 1))

\* Mutant of AddNode: the id counter is not incremented
AddNodeSameId(b, cfg, layer, i) ==
  LET isOutputLayer == layer = Len(cfg.networkShape)
      isInputLayer == layer = 1
      nodeId == IF isInputLayer THEN cfg.inputIds[i] ELSE NumToString(b.id)
      node == NewNode(nodeId,
                      IF isOutputLayer THEN cfg.outputActivation ELSE cfg.activation,
                      cfg.initZero)
  IN  [b EXCEPT !.network[layer] = Append(@, node)]

\* start of the body of the loop over i: the node, pushed on the current layer
AddNode(b, cfg, layer, i) ==
  LET isOutputLayer == layer = Len(cfg.networkShape)
      isInputLayer == layer = 1
      nodeId == IF isInputLayer THEN cfg.inputIds[i] ELSE NumToString(b.id)
      node == NewNode(nodeId,
                      IF isOutputLayer THEN cfg.outputActivation ELSE cfg.activation,
                      cfg.initZero)
  IN  [b EXCEPT !.id = IF isInputLayer THEN @ ELSE @ + 1,
                !.network[layer] = Append(@, node)]

RECURSIVE NodeLoop(_, _, _, _)
NodeLoop(b, cfg, layer, i) ==
  IF i > cfg.networkShape[layer] THEN b
  ELSE Bind(AddNode(b, cfg, layer, i),
            LAMBDA b1 :
              Bind(IF layer >= 2 THEN LinkLoop(b1, cfg, layer, i, 1) ELSE b1,
                   LAMBDA b2 : NodeLoop(b2, cfg, layer, i + 1)))

RECURSIVE LayerLoop(_, _, _)
LayerLoop(b, cfg, layer) ==
  IF layer > Len(cfg.networkShape) THEN b
  ELSE Bind([b EXCEPT !.network = Append(@, <<>>)],
            LAMBDA b1 :
              Bind(NodeLoop(b1, cfg, layer, 1),
                   LAMBDA b2 : LayerLoop(b2, cfg, layer + 1)))

buildNetwork(cfg) ==
  LayerLoop([network |-> <<>>, links |-> <<>>, id |-> 1], cfg, 1)

---------------------------------------------------------------------------
(* Forward propagation.  st is the object graph [network, links].          *)

RECURSIVE WeightedSum(_, _, _, _)
WeightedSum(st, inputLinks, j, totalInput) ==
  IF j > Len(inputLinks) THEN totalInput
  ELSE
    LET link == st.links[inputLinks[j]]
        source == st.network[link.source[1]][link.source[2]]
    IN  WeightedSum(st, inputLinks, j + 1,
                    Add(totalInput, Mul(link.weight, source.output)))

\* Mutant of updateOutput: the sum starts from the totalInput of the previous
\* call, when there was one, instead of the bias
updateOutputKeepsTotal(st, layer, i) ==
  LET node == st.network[layer][i]
      totalInput == WeightedSum(st, node.inputLinks, 1,
                                IF IsNum(node.totalInput)
                                THEN Add(node.totalInput, node.bias)
                                ELSE node.bias)
  IN  [node EXCEPT !.totalInput = totalInput,
                   !.output = ActivationOutput(node.activation, totalInput)]

\* Node.updateOutput of node i of a layer
updateOutput(st, layer, i) ==
  LET node == st.network[layer][i]
      totalInput == WeightedSum(st, node.inputLinks, 1, node.bias)
  IN  [node EXCEPT !.totalInput = totalInput,
                   !.output = ActivationOutput(node.activation, totalInput)]

RECURSIVE ForwardLayers(_, _)
ForwardLayers(st, layer) ==
  IF layer > Len(st.network) THEN st
  ELSE Bind([st EXCEPT !.network[layer] =
               [i \in 1..Len(st.network[layer]) |-> updateOutput(st, layer, i)]],
            LAMBDA st1 : ForwardLayers(st1, layer + 1))

SetInputs(st, inputs) ==
  [st EXCEPT !.network[1] =
     [i \in 1..Len(st.network[1]) |-> [st.network[1][i] EXCEPT !.output = inputs[i]]]]

getOutputNode(net) == net[Len(net)][1]

\* Mutant of forwardProp: the input layer is written before the length is checked
forwardPropLateCheck(st, inputs) ==
  IF Len(inputs) # Len(st.network[1])
  THEN [st |-> [st EXCEPT !.network[1] =
                  [i \in 1..Len(st.network[1]) |->
                     IF i <= Len(inputs)
                     THEN [st.network[1][i] EXCEPT !.output = inputs[i]]
                     ELSE st.network[1][i]]],
        threw |-> TRUE, result |-> Undefined]
  ELSE Bind(SetInputs(st, inputs),
            LAMBDA st1 :
              Bind(ForwardLayers(st1, 2),
                   LAMBDA st2 : [st |-> st2, threw |-> FALSE,
                                 result |-> getOutputNode(st2.network).output]))

\* forwardProp(network, inputs): the graph it leaves, whether it threw, its result
forwardProp(st, inputs) ==
  IF Len(inputs) # Len(st.network[1])
  THEN [st |-> st, threw |-> TRUE, result |-> Undefined]
  ELSE Bind(SetInputs(st, inputs),
            LAMBDA st1 :
              Bind(ForwardLayers(st1, 2),
                   LAMBDA st2 : [st |-> st2, threw |-> FALSE,
                                 result |-> getOutputNode(st2.network).output]))

---------------------------------------------------------------------------
(* Back propagation *)

\* Mutant of BackNode: the accumulator is overwritten, not added to
BackNodeOverwrite(node) ==
  LET inputDer == Mul(node.outputDer, ActivationDer(node.activation, node.totalInput))
  IN  [node EXCEPT !.inputDer = inputDer,
                   !.accInputDer = inputDer,
                   !.numAccumulatedDers = @ + 1]

\* first loop of a layer: dE/d(totalInput) of one node, accumulated
BackNode(node) ==
  LET inputDer == Mul(node.outputDer, ActivationDer(node.activation, node.totalInput))
  IN  [node EXCEPT !.inputDer = inputDer,
                   !.accInputDer = Add(@, inputDer),
                   !.numAccumulatedDers = @ + 1]

\* Mutant of BackLink: the derivative is multiplied by the output of the
\* destination node, not of the source node
BackLinkDestOutput(link, node, source) ==
  IF link.isDead THEN link
  ELSE LET errorDer == Mul(node.inputDer, node.output)
       IN  [link EXCEPT !.errorDer = errorDer,
                        !.accErrorDer = Add(@, errorDer),
                        !.numAccumulatedDers = @ + 1]

\* second loop of a layer: dE/dw of one incoming link, accumulated
BackLink(link, node, source) ==
  IF link.isDead THEN link
  ELSE LET errorDer == Mul(node.inputDer, source.output)
       IN  [link EXCEPT !.errorDer = errorDer,
                        !.accErrorDer = Add(@, errorDer),
                        !.numAccumulatedDers = @ + 1]

RECURSIVE OutputDerSum(_, _, _, _)
OutputDerSum(st, outputs, j, outputDer) ==
  IF j > Len(outputs) THEN outputDer
  ELSE
    LET output == st.links[outputs[j]]
        dest == st.network[output.dest[1]][output.dest[2]]
    IN  OutputDerSum(st, outputs, j + 1,
                     Add(outputDer, Mul(output.weight, dest.inputDer)))

\* the links that the nodes of a layer hold in their inputLinks
LinksInto(st, layer) ==
  { st.network[layer][i].inputLinks[j] :
      <<i, j>> \in { p \in (1..Len(st.network[layer])) \X (1..Len(st.links)) :
                       p[2] <= Len(st.network[layer][p[1]].inputLinks) } }

\* first loop over the nodes of a layer
BackNodes(st, layer) ==
  [st EXCEPT !.network[layer] =
     [i \in 1..Len(st.network[layer]) |-> BackNode(st.network[layer][i])]]

\* second loop over the nodes of a layer and their inputLinks
BackLinks(st, layer) ==
  [st EXCEPT !.links =
     [k \in 1..Len(st.links) |->
        IF k \in LinksInto(st, layer)
        THEN BackLink(st.links[k],
                      st.network[st.links[k].dest[1]][st.links[k].dest[2]],
                      st.network[st.links[k].source[1]][st.links[k].source[2]])
        ELSE st.links[k]]]

\* third loop: dE/d(output) of the nodes of the previous layer
PrevOutputDers(st, layer) ==
  [st EXCEPT !.network[layer - 1] =
     [i \in 1..Len(st.network[layer - 1]) |->
        [st.network[layer - 1][i] EXCEPT !.outputDer =
           OutputDerSum(st, st.network[layer - 1][i].outputs, 1, Zero)]]]

\* Mutant of BackLayers: the third loop runs for the first hidden layer too and
\* gives the input-layer nodes an outputDer
RECURSIVE BackLayersIntoInputs(_, _)
BackLayersIntoInputs(st, layer) ==
  IF layer < 2 THEN st
  ELSE Bind(BackNodes(st, layer),
         LAMBDA st1 :
           Bind(BackLinks(st1, layer),
             LAMBDA st2 :
               Bind(PrevOutputDers(st2, layer),
                    LAMBDA st3 : BackLayersIntoInputs(st3, layer - 1))))

RECURSIVE BackLayers(_, _)
BackLayers(st, layer) ==
  IF layer < 2 THEN st
  ELSE Bind(BackNodes(st, layer),
         LAMBDA st1 :
           Bind(BackLinks(st1, layer),
             LAMBDA st2 :
               Bind(IF layer = 2 THEN st2 ELSE PrevOutputDers(st2, layer),
                    LAMBDA st3 : BackLayers(st3, layer - 1))))

\* backProp(network, target, Errors.SQUARE)
backProp(st, target) ==
  Bind([st EXCEPT !.network[Len(st.network)][1].outputDer =
          SquareDer(getOutputNode(st.network).output, target)],
       LAMBDA st0 : BackLayers(st0, Len(st0.network)))

---------------------------------------------------------------------------
(* Weight update *)

\* Mutant of UpdateBias: the accumulated derivative is not averaged
UpdateBiasNoAverage(node, learningRate) ==
  IF node.numAccumulatedDers > 0
  THEN [node EXCEPT !.bias = Sub(@, Mul(learningRate, node.accInputDer)),
                    !.accInputDer = Zero,
                    !.numAccumulatedDers = 0]
  ELSE node

\* the bias update of one node
UpdateBias(node, learningRate) ==
  IF node.numAccumulatedDers > 0
  THEN [node EXCEPT !.bias = Sub(@, Div(Mul(learningRate, node.accInputDer),
                                        Rat(node.numAccumulatedDers, 1))),
                    !.accInputDer = Zero,
                    !.numAccumulatedDers = 0]
  ELSE node

\* the weight after the gradient step
GradientStep(link, learningRate) ==
  Sub(link.weight,
      Mul(Div(learningRate, Rat(link.numAccumulatedDers, 1)), link.accErrorDer))

\* Mutant of UpdateLink: a pruned link is marked dead but keeps the decayed weight
UpdateLinkKeepsWeight(link, learningRate, regularizationRate) ==
  IF link.isDead THEN link
  ELSE
    LET regulDer == IF link.regularization # NoReg
                    THEN RegularizationDer(link.regularization, link.weight)
                    ELSE Zero
        weight == GradientStep(link, learningRate)
        newLinkWeight == Sub(weight, Mul(Mul(learningRate, regularizationRate), regulDer))
    IN  IF link.numAccumulatedDers > 0
        THEN [link EXCEPT !.weight = newLinkWeight,
                          !.isDead = link.regularization = L1
                                       /\ Lt(Mul(weight, newLinkWeight), Zero),
                          !.accErrorDer = Zero, !.numAccumulatedDers = 0]
        ELSE link

\* Mutant of UpdateLink: the regularization derivative is taken at the weight
\* the gradient step leaves
UpdateLinkRegAfterStep(link, learningRate, regularizationRate) ==
  IF link.isDead THEN link
  ELSE
    LET weight == GradientStep(link, learningRate)
        regulDer == IF link.regularization # NoReg
                    THEN RegularizationDer(link.regularization, weight)
                    ELSE Zero
        newLinkWeight == Sub(weight, Mul(Mul(learningRate, regularizationRate), regulDer))
    IN  IF link.numAccumulatedDers > 0
        THEN IF link.regularization = L1 /\ Lt(Mul(weight, newLinkWeight), Zero)
             THEN [link EXCEPT !.weight = Zero, !.isDead = TRUE,
                               !.accErrorDer = Zero, !.numAccumulatedDers = 0]
             ELSE [link EXCEPT !.weight = newLinkWeight,
                               !.accErrorDer = Zero, !.numAccumulatedDers = 0]
        ELSE link

\* Mutant of UpdateLink: a link without a regularization pair decays as under L2
UpdateLinkDecaysUnregularized(link, learningRate, regularizationRate) ==
  IF link.isDead THEN link
  ELSE
    LET regulDer == IF link.regularization = L1
                    THEN RegularizationDer(L1, link.weight)
                    ELSE link.weight
        weight == GradientStep(link, learningRate)
        newLinkWeight == Sub(weight, Mul(Mul(learningRate, regularizationRate), regulDer))
    IN  IF link.numAccumulatedDers > 0
        THEN IF link.regularization = L1 /\ Lt(Mul(weight, newLinkWeight), Zero)
             THEN [link EXCEPT !.weight = Zero, !.isDead = TRUE,
                               !.accErrorDer = Zero, !.numAccumulatedDers = 0]
             ELSE [link EXCEPT !.weight = newLinkWeight,
                               !.accErrorDer = Zero, !.numAccumulatedDers = 0]
        ELSE link

\* Mutant of UpdateLink: the regularization step runs also when nothing was
\* accumulated
UpdateLinkDecaysUnaccumulated(link, learningRate, regularizationRate) ==
  IF link.isDead THEN link
  ELSE
    LET regulDer == IF link.regularization # NoReg
                    THEN RegularizationDer(link.regularization, link.weight)
                    ELSE Zero
        weight == IF link.numAccumulatedDers > 0
                  THEN GradientStep(link, learningRate) ELSE link.weight
        newLinkWeight == Sub(weight, Mul(Mul(learningRate, regularizationRate), regulDer))
    IN  IF link.regularization = L1 /\ Lt(Mul(weight, newLinkWeight), Zero)
        THEN [link EXCEPT !.weight = Zero, !.isDead = TRUE,
                          !.accErrorDer = Zero, !.numAccumulatedDers = 0]
        ELSE [link EXCEPT !.weight = newLinkWeight,
                          !.accErrorDer = Zero, !.numAccumulatedDers = 0]

\* the body of the loop over a node's inputLinks
UpdateLink(link, learningRate, regularizationRate) ==
  IF link.isDead THEN link
  ELSE
    LET regulDer == IF link.regularization # NoReg
                    THEN RegularizationDer(link.regularization, link.weight)
                    ELSE Zero
        weight == GradientStep(link, learningRate)
        newLinkWeight == Sub(weight, Mul(Mul(learningRate, regularizationRate), regulDer))
    IN  IF link.numAccumulatedDers > 0
        THEN IF link.regularization = L1 /\ Lt(Mul(weight, newLinkWeight), Zero)
             THEN [link EXCEPT !.weight = Zero, !.isDead = TRUE,
                               !.accErrorDer = Zero, !.numAccumulatedDers = 0]
             ELSE [link EXCEPT !.weight = newLinkWeight,
                               !.accErrorDer = Zero, !.numAccumulatedDers = 0]
        ELSE link

updateWeights(st, learningRate, regularizationRate) ==
  [network |->
     [layer \in 1..Len(st.network) |->
        IF layer = 1 THEN st.network[layer]
        ELSE [i \in 1..Len(st.network[layer]) |->
                UpdateBias(st.network[layer][i], learningRate)]],
   links |->
     [k \in 1..Len(st.links) |->
        IF \E layer \in 2..Len(st.network) : k \in LinksInto(st, layer)
        THEN UpdateLink(st.links[k], learningRate, regularizationRate)
        ELSE st.links[k]]]

---------------------------------------------------------------------------
(* Calls made on a built network *)

Graph == [network |-> network, links |-> links]

\* deserializeState has not returned a State yet
NoState == <<>>

\* a call as recorded in `call`; accumulated is the number of backProp calls
\* since the last updateWeights at the time of the call
Call(op, inputs, target, learningRate, regularizationRate, threw, result) ==
  [ op |-> op, inputs |-> inputs, target |-> target,
    learningRate |-> learningRate, regularizationRate |-> regularizationRate,
    threw |-> threw, result |-> result, accumulated |-> batch.count ]

\* the nodes of every layer but the input layer
InnerNodes(net) ==
  UNION { { <<layer, i>> : i \in 1..Len(net[layer]) } : layer \in 2..Len(net) }

EmptyBatch(st) ==
  [ count |-> 0,
    inputDer |-> [n \in InnerNodes(st.network) |-> Zero],
    errorDer |-> [k \in 1..Len(st.links) |-> Zero] ]

InputVals == {Rat(-1, 1), Rat(1, 1)}

Targets == {One}

\* <<learningRate, regularizationRate>> of an updateWeights call
UpdateArgs == {<<Rat(1, 2), Zero>>, <<One, One>>}

\* input vectors of the right length, one shorter and one longer
InputVectors(n) ==
  { [i \in 1..n |-> IF i = 1 THEN v ELSE One] : v \in InputVals }
    \cup { [i \in 1..m |-> One] : m \in {n - 1, n + 1} }

ForwardPropWith(vectors) ==
  \E inputs \in vectors :
    \E r \in {forwardProp(Graph, inputs)} :
        /\ network' = r.st.network
        /\ links' = r.st.links
        /\ call' = Call("forwardProp", inputs, Zero, Zero, Zero, r.threw, r.result)
        /\ UNCHANGED <<config, batch, backProps, hash, state>>

ForwardProp == ForwardPropWith(InputVectors(Len(network[1])))

BackProp ==
  /\ backProps < MaxBackProps
  /\ \E target \in Targets :
       \E st \in {backProp(Graph, target)} :
           /\ network' = st.network
           /\ links' = st.links
           /\ call' = Call("backProp", <<>>, target, Zero, Zero, FALSE, Undefined)
           /\ batch' =
                [ count |-> batch.count + 1,
                  inputDer |-> [n \in DOMAIN batch.inputDer |->
                                  Add(batch.inputDer[n], st.network[n[1]][n[2]].inputDer)],
                  errorDer |-> [k \in DOMAIN batch.errorDer |->
                                  IF links[k].isDead THEN batch.errorDer[k]
                                  ELSE Add(batch.errorDer[k], st.links[k].errorDer)] ]
           /\ backProps' = backProps + 1
           /\ UNCHANGED <<config, hash, state>>

UpdateWeights ==
  \E <<learningRate, regularizationRate>> \in UpdateArgs :
       \E st \in {updateWeights(Graph, learningRate, regularizationRate)} :
           /\ network' = st.network
           /\ links' = st.links
           /\ call' = Call("updateWeights", <<>>, Zero, learningRate, regularizationRate,
                           FALSE, Undefined)
           /\ batch' = EmptyBatch(st)
           /\ UNCHANGED <<config, backProps, hash, state>>

---------------------------------------------------------------------------
(* Specification of training: a network built from one of Configs, then    *)
(* any sequence of forwardProp, backProp and updateWeights calls.          *)

NumLinks(shape) ==
  LET RECURSIVE Count(_)
      Count(layer) == IF layer > Len(shape) THEN 0
                      ELSE shape[layer - 1] * shape[layer] + Count(layer + 1)
  IN  Count(2)

InputNames == <<"x", "y", "xSquared">>

\* values of Math.random(): the initial weights are -1/2 and 1/4
RandomVals == {Zero, Rat(3, 4)}

\* what Math.random() returns for each Link; not looked at under initZero
RandomDraws(shape, initZero) ==
  IF initZero THEN {[k \in 1..NumLinks(shape) |-> Zero]}
  ELSE [1..NumLinks(shape) -> RandomVals]

BuildArgs(shapes, activations, outputActivations, regs, zeroFlags) ==
  UNION { UNION {
    { [ networkShape |-> shape, activation |-> a, outputActivation |-> o,
        regularization |-> r, inputIds |-> SubSeq(InputNames, 1, shape[1]),
        initZero |-> z, random |-> rnd ] :
        a \in activations, o \in outputActivations, r \in regs,
        rnd \in RandomDraws(shape, z) } :
    z \in zeroFlags } : shape \in shapes }

Configs ==
  BuildArgs({<<2, 1>>}, {RELU}, {LINEAR}, {NoReg, L1, L2}, {FALSE})
    \cup BuildArgs({<<1, 1, 1>>}, {RELU}, {LINEAR}, {NoReg}, {TRUE})

InitWith(args) ==
  /\ config \in args
  /\ \E b \in {buildNetwork(config)} :
         /\ network = b.network
         /\ links = b.links
         /\ batch = EmptyBatch(b)
  /\ call = [ op |-> "buildNetwork", inputs |-> <<>>, target |-> Zero,
              learningRate |-> Zero, regularizationRate |-> Zero,
              threw |-> FALSE, result |-> Undefined, accumulated |-> 0 ]
  /\ backProps = 0
  /\ hash = ""
  /\ state = NoState

Init == InitWith(Configs)

Next == ForwardProp \/ BackProp \/ UpdateWeights

Spec == Init /\ [][Next]_vars

---------------------------------------------------------------------------
(* Properties of training, checked under Spec *)

Node(n) == network[n[1]][n[2]]

NodeAfter(n) == network'[n[1]][n[2]]

LinkIds == 1..Len(links)

Updating == call'.op = "updateWeights"

\* C1: pruning permanence.  In every step made by forwardProp, backProp or
\* updateWeights, a link that is dead stays dead, and a link that is dead after
\* the step has weight exactly 0: once isDead, always isDead with weight 0.
C1_PruningPermanence ==
  [][\A k \in LinkIds :
       /\ links[k].isDead => links'[k].isDead
       /\ links'[k].isDead => links'[k].weight = Zero]_vars

\* a link is dead (updateWeights pruned it) and backProp has run since
C1_Witness ==
  /\ call.op = "backProp"
  /\ \E k \in LinkIds : links[k].isDead

\* C2: shape validation.  A forwardProp call whose input vector has not the
\* length of the input layer throws, and no field of any node or link changes.
C2_ShapeValidation ==
  [][(call'.op = "forwardProp" /\ Len(call'.inputs) # Len(network[1]))
       => (call'.threw /\ network' = network /\ links' = links)]_vars

\* a call with a wrong-length vector has thrown on a network that an earlier
\* forwardProp had given other inputs
C2_Witness ==
  /\ call.op = "forwardProp"
  /\ call.threw
  /\ Len(call.inputs) > 0
  /\ IsNum(network[1][1].output)
  /\ network[1][1].output # call.inputs[1]

\* the accumulators hold what the backProp calls since the last updateWeights
\* computed
C3_Accumulated ==
  /\ \A n \in InnerNodes(network) :
       /\ Node(n).numAccumulatedDers = batch.count
       /\ Node(n).accInputDer = batch.inputDer[n]
  /\ \A k \in LinkIds :
       ~links[k].isDead =>
         /\ links[k].numAccumulatedDers = batch.count
         /\ links[k].accErrorDer = batch.errorDer[k]

\* no call but updateWeights lowers a counter
C3_NoReset ==
  ~Updating =>
    /\ \A n \in InnerNodes(network) :
         NodeAfter(n).numAccumulatedDers >= Node(n).numAccumulatedDers
    /\ \A k \in LinkIds :
         links'[k].numAccumulatedDers >= links[k].numAccumulatedDers

\* C3: accumulation contract.  In every reachable state each non-input node's
\* numAccumulatedDers is the number of backProp calls since the last
\* updateWeights (or construction) and its accInputDer the sum of the inputDer
\* those calls computed, likewise accErrorDer and numAccumulatedDers of every
\* link that is not dead; and forwardProp and backProp never lower a counter.
C3_AccumulationContract == []C3_Accumulated /\ [][C3_NoReset]_vars

\* two backProp calls have accumulated different, non-zero derivatives
C3_Witness ==
  /\ batch.count = 2
  /\ \E n \in InnerNodes(network) :
       /\ Node(n).accInputDer # Zero
       /\ Node(n).accInputDer # Node(n).inputDer
  /\ \E k \in LinkIds :
       /\ links[k].accErrorDer # Zero
       /\ links[k].accErrorDer # links[k].errorDer

\* what updateWeights leaves of a live link with accumulated derivatives, when
\* the regularization derivative is taken at weight `at`
Regularized(link, at, learningRate, regularizationRate) ==
  LET w1 == GradientStep(link, learningRate)
      newWeight == Sub(w1, Mul(Mul(learningRate, regularizationRate),
                               RegularizationDer(link.regularization, at)))
      pruned == link.regularization = L1 /\ Lt(Mul(w1, newWeight), Zero)
  IN  [weight |-> IF pruned THEN Zero ELSE newWeight, isDead |-> pruned]

\* the links that the claim about the update order is about
Decaying(k) ==
  /\ ~links[k].isDead
  /\ links[k].numAccumulatedDers > 0
  /\ links[k].regularization # NoReg

\* C4 as stated: the regularization derivative is evaluated at the weight that
\* results from the gradient step.
C4_DerivativeAfterStep ==
  [][Updating =>
       \A k \in LinkIds :
         Decaying(k) =>
           LET r == Regularized(links[k], GradientStep(links[k], call'.learningRate),
                                call'.learningRate, call'.regularizationRate)
           IN  links'[k].weight = r.weight /\ links'[k].isDead = r.isDead]_vars

\* C4, amended: the gradient step is applied first and the decay is subtracted
\* from its result, but the regularization derivative is evaluated at the weight
\* the link had before the gradient step: newWeight = w1 - learningRate *
\* regularizationRate * regularization.der(w0); the link ends dead with weight 0
\* when the regularization is L1 and w1 * newWeight < 0, else with newWeight.
C4_UpdateOrdering ==
  [][Updating =>
       \A k \in LinkIds :
         Decaying(k) =>
           LET r == Regularized(links[k], links[k].weight,
                                call'.learningRate, call'.regularizationRate)
           IN  links'[k].weight = r.weight /\ links'[k].isDead = r.isDead]_vars

\* updateWeights has run with a non-zero rate on accumulated derivatives of a
\* regularized network and left a live link with a non-zero weight
C4_Witness ==
  /\ call.op = "updateWeights"
  /\ call.accumulated > 0
  /\ call.regularizationRate # Zero
  /\ config.regularization # NoReg
  /\ \E k \in LinkIds : ~links[k].isDead /\ links[k].weight # Zero

\* C5: accumulation linearity.  Without a regularization pair, updateWeights
\* after N > 0 backProp calls moves each non-input node's bias by
\* -learningRate * (sum of the N inputDer) / N and each link's weight by
\* -learningRate * (sum of the N errorDer) / N.
C5_AccumulationLinearity ==
  [][(Updating /\ batch.count > 0 /\ config.regularization = NoReg) =>
       LET step(sum) == Div(Mul(call'.learningRate, sum), Rat(batch.count, 1))
       IN  /\ \A n \in InnerNodes(network) :
                NodeAfter(n).bias = Sub(Node(n).bias, step(batch.inputDer[n]))
           /\ \A k \in LinkIds :
                ~links[k].isDead =>
                  links'[k].weight = Sub(links[k].weight, step(batch.errorDer[k]))]_vars

\* an unregularized network has been updated after two examples with a
\* learning rate other than 1
C5_Witness ==
  /\ call.op = "updateWeights"
  /\ call.accumulated = 2
  /\ call.learningRate # One
  /\ config.regularization = NoReg
  /\ \E n \in InnerNodes(network) : Node(n).bias # Rat(1, 10) /\ Node(n).bias # Zero

\* C6: no regularization pair, no decay and no pruning.  updateWeights changes
\* the weight of a link without a regularization pair by exactly the gradient
\* step, whatever the regularization rate, and never marks it dead; a network
\* built without regularization has no dead link in any reachable state.
C6_NoRegularization ==
  /\ [](\A k \in LinkIds : links[k].regularization = NoReg => ~links[k].isDead)
  /\ [][Updating =>
          \A k \in LinkIds :
            links[k].regularization = NoReg =>
              links'[k].weight =
                IF links[k].numAccumulatedDers > 0
                THEN GradientStep(links[k], call'.learningRate)
                ELSE links[k].weight]_vars

\* an unregularized network has been updated with a non-zero regularization
\* rate on accumulated derivatives
C6_Witness ==
  /\ call.op = "updateWeights"
  /\ call.accumulated > 0
  /\ call.regularizationRate # Zero
  /\ \E k \in LinkIds : links[k].regularization = NoReg /\ links[k].weight # Zero

NothingAccumulated ==
  /\ \A n \in InnerNodes(network) : Node(n).numAccumulatedDers = 0
  /\ \A k \in LinkIds : links[k].numAccumulatedDers = 0

\* C7: update with nothing accumulated is a no-op.  When every node and link
\* has numAccumulatedDers = 0, updateWeights changes no field of any node or
\* link, whatever the rates and the regularization.
C7_EmptyUpdateIsNoOp ==
  [][(Updating /\ NothingAccumulated) => (network' = network /\ links' = links)]_vars

\* updateWeights has run with a non-zero rate directly after another
\* updateWeights, on a regularized network with a live non-zero weight
C7_Witness ==
  /\ call.op = "updateWeights"
  /\ call.accumulated = 0
  /\ backProps > 0
  /\ call.regularizationRate # Zero
  /\ config.regularization # NoReg
  /\ \E k \in LinkIds : ~links[k].isDead /\ links[k].weight # Zero

---------------------------------------------------------------------------
(* Specification of construction: buildNetwork applied to shapes of up to  *)
(* MaxBuildLayers layers of up to MaxBuildSize nodes, with input ids that  *)
(* may repeat and may look like the ids the builder assigns.               *)

IdPool == {"x", "y", "1"}

BuildShapes ==
  UNION { [1..n -> 1..MaxBuildSize] : n \in 1..MaxBuildLayers }

BuildConfigs ==
  UNION {
    { [ networkShape |-> shape, activation |-> RELU, outputActivation |-> LINEAR,
        regularization |-> NoReg, inputIds |-> ids, initZero |-> z,
        random |-> [k \in 1..NumLinks(shape) |-> Rat(3, 4)] ] :
        ids \in [1..shape[1] -> IdPool], z \in BOOLEAN } :
    shape \in BuildShapes }

NotBuilt ==
  [ op |-> "none", inputs |-> <<>>, target |-> Zero,
    learningRate |-> Zero, regularizationRate |-> Zero,
    threw |-> FALSE, result |-> Undefined, accumulated |-> 0 ]

InitBuild ==
  /\ config \in BuildConfigs
  /\ network = <<>>
  /\ links = <<>>
  /\ call = NotBuilt
  /\ batch = [count |-> 0, inputDer |-> <<>>, errorDer |-> <<>>]
  /\ backProps = 0
  /\ hash = ""
  /\ state = NoState

BuildNetwork ==
  /\ call.op = "none"
  /\ \E b \in {buildNetwork(config)} :
       /\ network' = b.network
       /\ links' = b.links
       /\ batch' = EmptyBatch(b)
  /\ call' = [NotBuilt EXCEPT !.op = "buildNetwork"]
  /\ UNCHANGED <<config, backProps, hash, state>>

SpecBuild == InitBuild /\ [][BuildNetwork]_vars

Built == call.op = "buildNetwork"

AllNodes ==
  UNION { { <<layer, i>> : i \in 1..Len(network[layer]) } : layer \in 1..Len(network) }

\* C8: dense layered connectivity.  In every built network the layers have the
\* sizes of the shape; the number of links into layer i+1 is size(layer i) *
\* size(layer i+1); every link goes from a node of a layer to a node of the
\* next; input-layer nodes have no incoming links; and the j-th of a node's
\* inputLinks comes from node j of the previous layer.
C8_DenseConnectivity ==
  Built =>
    /\ Len(network) = Len(config.networkShape)
    /\ \A layer \in 1..Len(network) : Len(network[layer]) = config.networkShape[layer]
    /\ \A layer \in 2..Len(network) :
         Cardinality({ k \in LinkIds : links[k].dest[1] = layer })
           = config.networkShape[layer - 1] * config.networkShape[layer]
    /\ \A k \in LinkIds :
         /\ links[k].source \in AllNodes
         /\ links[k].dest \in AllNodes
         /\ links[k].dest[1] = links[k].source[1] + 1
    /\ \A i \in 1..Len(network[1]) : network[1][i].inputLinks = <<>>
    /\ \A n \in InnerNodes(network) :
         /\ Len(Node(n).inputLinks) = Len(network[n[1] - 1])
         /\ \A j \in 1..Len(Node(n).inputLinks) :
              /\ Node(n).inputLinks[j] \in LinkIds
              /\ links[Node(n).inputLinks[j]].source = <<n[1] - 1, j>>
              /\ links[Node(n).inputLinks[j]].dest = n

\* a network of three layers with two nodes in each of the first two is built
C8_Witness ==
  /\ Built
  /\ Len(network) = 3
  /\ Len(network[1]) = 2
  /\ Len(network[2]) = 2
  /\ Len(links) > 4

UniqueIds ==
  \A n, m \in AllNodes : n # m => Node(n).id # Node(m).id

\* the number of nodes of the layers 2 .. layer - 1
RECURSIVE NodesBefore(_)
NodesBefore(layer) ==
  IF layer <= 2 THEN 0 ELSE Len(network[layer - 1]) + NodesBefore(layer - 1)

SequentialIds ==
  \A n \in InnerNodes(network) : Node(n).id = NumToString(NodesBefore(n[1]) + n[2])

\* the ids the builder assigns to the nodes that are not inputs
AssignedIds == { NumToString(m) : m \in 1..Cardinality(InnerNodes(network)) }

DistinctInputIds ==
  /\ \A i, j \in 1..Len(config.inputIds) :
       i # j => config.inputIds[i] # config.inputIds[j]
  /\ \A i \in 1..Len(config.inputIds) : config.inputIds[i] \notin AssignedIds

\* C9 as stated: whatever input ids the caller supplies, no two nodes of the
\* built network have the same id.
C9_UniqueIdsForAnyInputIds == Built => UniqueIds

\* C9, amended: non-input nodes get the ids "1", "2", ... in layer-then-position
\* order; and when the caller's input ids are pairwise distinct and none of them
\* is one of those numerals, no two nodes of the network have the same id.
C9_UniqueIds ==
  Built => (SequentialIds /\ (DistinctInputIds => UniqueIds))

\* a network with distinct, non-numeric input ids and three or more other
\* nodes in two layers is built
C9_Witness ==
  /\ Built
  /\ DistinctInputIds
  /\ Len(network) = 3
  /\ Len(network[1]) = 2
  /\ Cardinality(InnerNodes(network)) >= 3

---------------------------------------------------------------------------
(* Specification of the zero-initialised network: built with initZero and  *)
(* a linear output, then forwardProp and backProp calls (no updateWeights, *)
(* so that the weights and biases stay as built).                          *)

ZeroConfigs ==
  BuildArgs({<<2, 2, 1>>, <<1, 1>>}, {TANH, RELU, SIGMOID, LINEAR}, {LINEAR},
            {NoReg, L1, L2}, {TRUE})

ZeroInputVals == {Rat(-2, 1), Rat(-1, 1), Zero, Rat(1, 2), One}

InitZero == InitWith(ZeroConfigs)

ForwardPropZero ==
  ForwardPropWith([1..Len(network[1]) -> ZeroInputVals]
                    \cup InputVectors(Len(network[1])))

NextZero == ForwardPropZero \/ BackProp

SpecZero == InitZero /\ [][NextZero]_vars

\* C10: zero-init forward.  On a network built with the zero-init flag and a
\* linear output activation, every forwardProp call with an input vector of the
\* right length returns exactly 0.
C10_ZeroInitForward ==
  (call.op = "forwardProp" /\ ~call.threw) => call.result = Zero

\* shape [2,2,1] with sigmoid hidden nodes has been given the input [1,1]; the
\* hidden nodes output sigmoid(0) = 1/2
C10_Witness ==
  /\ config.networkShape = <<2, 2, 1>>
  /\ config.activation = SIGMOID
  /\ call.op = "forwardProp"
  /\ ~call.threw
  /\ call.inputs = <<One, One>>
  /\ network[2][1].output = Rat(1, 2)
  /\ network[2][2].output = Rat(1, 2)

---------------------------------------------------------------------------
(* Specification of a network with fixed weights: hidden layers, random    *)
(* initial weights, then forwardProp and backProp calls only.              *)

FixedConfigs ==
  BuildArgs({<<2, 2, 1>>, <<1, 1, 2>>}, {RELU, LINEAR}, {LINEAR}, {NoReg}, {FALSE})

InitFixed == InitWith(FixedConfigs)

NextFixed == ForwardProp \/ BackProp

SpecFixed == InitFixed /\ [][NextFixed]_vars

\* what forwardProp gives for these inputs on the network as buildNetwork
\* returned it, before any other call
FirstCall(inputs) == forwardProp(buildNetwork(config), inputs)

\* the fields forwardProp is not to touch
ForwardFrame ==
  /\ \A n \in AllNodes :
       /\ NodeAfter(n).bias = Node(n).bias
       /\ NodeAfter(n).outputDer = Node(n).outputDer
       /\ NodeAfter(n).inputDer = Node(n).inputDer
       /\ NodeAfter(n).accInputDer = Node(n).accInputDer
       /\ NodeAfter(n).numAccumulatedDers = Node(n).numAccumulatedDers
  /\ links' = links

\* C11: forward determinism.  With the weights and biases fixed, every
\* forwardProp call that does not throw returns the output and leaves on every
\* node the totalInput and output that the same inputs gave on the network
\* before any other call, whatever forwardProp and backProp calls came in
\* between (so two calls with identical inputs agree); and forwardProp changes
\* no weight, bias, isDead flag or accumulator.
C11_ForwardDeterminism ==
  [][call'.op = "forwardProp" =>
       /\ ForwardFrame
       /\ ~call'.threw =>
            \E first \in {FirstCall(call'.inputs)} :
                /\ call'.result = first.result
                /\ \A n \in AllNodes :
                     /\ NodeAfter(n).totalInput = first.st.network[n[1]][n[2]].totalInput
                     /\ NodeAfter(n).output = first.st.network[n[1]][n[2]].output]_vars

\* forwardProp has run after two backProp calls on a network whose hidden
\* nodes are not all idle, and returned a number other than the bias
C11_Witness ==
  /\ call.op = "forwardProp"
  /\ ~call.threw
  /\ backProps = 2
  /\ Len(network) = 3
  /\ \E i \in 1..Len(network[2]) : ~(network[2][i].output = Zero)
  /\ IsNum(call.result)
  /\ call.result # Rat(1, 10)

\* the links that leave node n
Outgoing(n) == { k \in LinkIds : links[k].source = n }

\* sum of weight * dest.inputDer over a set of links
RECURSIVE SumWeightedInputDers(_)
SumWeightedInputDers(ks) ==
  IF ks = {} THEN Zero
  ELSE LET k == CHOOSE x \in ks : TRUE
       IN  Add(Mul(links[k].weight, Node(links[k].dest).inputDer),
               SumWeightedInputDers(ks \ {k}))

HiddenNodes == { n \in InnerNodes(network) : n[1] < Len(network) }

\* backProp was the last call and a forwardProp had run before it
AfterForwardAndBack ==
  /\ call.op = "backProp"
  /\ \A n \in AllNodes : IsNum(Node(n).output)

\* C12: backward result.  After forwardProp followed by backProp(target), the
\* output node has outputDer = output - target (Errors.SQUARE.der); every
\* non-input node has inputDer = outputDer * activation.der(totalInput); every
\* hidden node has outputDer = the sum over its outgoing links of weight *
\* dest.inputDer; and every non-dead link has errorDer = dest.inputDer *
\* source.output.
C12_BackwardResult ==
  AfterForwardAndBack =>
    /\ getOutputNode(network).outputDer
         = SquareDer(getOutputNode(network).output, call.target)
    /\ \A n \in InnerNodes(network) :
         Node(n).inputDer
           = Mul(Node(n).outputDer, ActivationDer(Node(n).activation, Node(n).totalInput))
    /\ \A n \in HiddenNodes :
         Node(n).outputDer = SumWeightedInputDers(Outgoing(n))
    /\ \A k \in LinkIds :
         ~links[k].isDead =>
           links[k].errorDer
             = Mul(Node(links[k].dest).inputDer, Node(links[k].source).output)

\* backProp has run after a forwardProp on shape [2,2,1]; a hidden node has a
\* non-zero outputDer and a link into it a non-zero errorDer that differs from
\* inputDer times the output of its destination
C12_Witness ==
  /\ AfterForwardAndBack
  /\ Len(network[1]) = 2
  /\ \E n \in HiddenNodes : Node(n).outputDer # Zero
  /\ \E k \in LinkIds :
       /\ links[k].dest \in HiddenNodes
       /\ links[k].errorDer # Zero
       /\ links[k].errorDer
            # Mul(Node(links[k].dest).inputDer, Node(links[k].dest).output)

InputNodes == { <<1, i>> : i \in 1..Len(network[1]) }

\* the derivative fields of the input-layer nodes are as constructed
InputNodesUntouched ==
  \A n \in InputNodes :
    /\ Node(n).outputDer = Zero
    /\ Node(n).inputDer = Zero
    /\ Node(n).accInputDer = Zero
    /\ Node(n).numAccumulatedDers = 0

\* what a backProp step is to leave alone
BackwardFrame ==
  /\ \A n \in AllNodes :
       /\ NodeAfter(n).bias = Node(n).bias
       /\ NodeAfter(n).totalInput = Node(n).totalInput
       /\ NodeAfter(n).output = Node(n).output
  /\ \A k \in LinkIds :
       /\ links'[k].weight = links[k].weight
       /\ links'[k].isDead = links[k].isDead
  /\ \A n \in InputNodes :
       /\ NodeAfter(n).outputDer = Node(n).outputDer
       /\ NodeAfter(n).inputDer = Node(n).inputDer
       /\ NodeAfter(n).accInputDer = Node(n).accInputDer
       /\ NodeAfter(n).numAccumulatedDers = Node(n).numAccumulatedDers
  /\ \A k \in LinkIds :
       links[k].isDead =>
         /\ links'[k].errorDer = links[k].errorDer
         /\ links'[k].accErrorDer = links[k].accErrorDer
         /\ links'[k].numAccumulatedDers = links[k].numAccumulatedDers

\* C13: backward frame.  backProp changes no weight, bias, isDead flag,
\* totalInput or output; it leaves outputDer, inputDer, accInputDer and
\* numAccumulatedDers of every input-layer node unchanged, and these are 0 in
\* every reachable state; and it leaves errorDer, accErrorDer and
\* numAccumulatedDers of every dead link unchanged.
C13_BackwardFrame ==
  /\ []InputNodesUntouched
  /\ [][call'.op = "backProp" => BackwardFrame]_vars

\* backProp has run after a forwardProp and computed a non-zero inputDer for
\* the destination of a link that updateWeights had pruned, and has counted
\* for that node but not for the link
C13_Witness ==
  /\ AfterForwardAndBack
  /\ \E k \in LinkIds :
       /\ links[k].isDead
       /\ links[k].numAccumulatedDers = 0
       /\ Node(links[k].dest).numAccumulatedDers > 0
       /\ Node(links[k].dest).inputDer # Zero
       /\ Node(links[k].source).output # Zero

---------------------------------------------------------------------------
(* state.ts: the State that is kept in the URL hash.  Strings are strings, *)
(* read one character at a time.  A JavaScript value is a record [t, s, n, *)
(* a]: its type tag, and its string, number or array of numbers.           *)

CharAt(str, i) == SubSeq(str, i, i)

\* the positions of the separator in str
SepPositions(str, sep) == { i \in 1..Len(str) : CharAt(str, i) = sep }

\* String.prototype.split(sep), sep one character
Split(str, sep) ==
  LET pos == SepPositions(str, sep)
      nth(k) == CHOOSE q \in pos : Cardinality({ r \in pos : r < q }) = k - 1
      n == Cardinality(pos)
  IN  [k \in 1..(n + 1) |->
         SubSeq(str, IF k = 1 THEN 1 ELSE nth(k - 1) + 1,
                     IF k = n + 1 THEN Len(str) ELSE nth(k) - 1)]

\* Array.prototype.join(sep) of an array of strings
RECURSIVE Join(_, _)
Join(strs, sep) ==
  IF Len(strs) = 0 THEN ""
  ELSE IF Len(strs) = 1 THEN strs[1]
  ELSE strs[1] \o sep \o Join(Tail(strs), sep)

WhiteSpace == {" "}

\* String.prototype.trim()
Trim(str) ==
  LET black == { i \in 1..Len(str) : CharAt(str, i) \notin WhiteSpace }
  IN  IF black = {} THEN ""
      ELSE SubSeq(str, CHOOSE i \in black : \A j \in black : i <= j,
                       CHOOSE i \in black : \A j \in black : i >= j)

\* endsWith(s, suffix): s.substr(-suffix.length) === suffix
endsWith(str, suffix) ==
  SubSeq(str, IF Len(str) > Len(suffix) THEN Len(str) - Len(suffix) + 1 ELSE 1, Len(str))
    = suffix

HIDE_STATE_SUFFIX == "_hide"

IsDigits(str) ==
  \A i \in 1..Len(str) : \E d \in 1..10 : Digits[d] = CharAt(str, i)

\* the value of a string of decimal digits ("" is 0)
RECURSIVE DigitsValue(_)
DigitsValue(str) ==
  IF str = "" THEN 0
  ELSE 10 * DigitsValue(SubSeq(str, 1, Len(str) - 1))
         + ((CHOOSE d \in 1..10 : Digits[d] = CharAt(str, Len(str))) - 1)

RECURSIVE Pow10(_)
Pow10(k) == IF k = 0 THEN 1 ELSE 10 * Pow10(k - 1)

\* the value of an unsigned decimal literal without exponent, NaN for any
\* other string
UnsignedToNumber(str) ==
  LET parts == Split(str, ".")
  IN  IF Len(parts) = 1
      THEN IF str # "" /\ IsDigits(str) THEN Rat(DigitsValue(str), 1) ELSE NaN
      ELSE IF Len(parts) = 2 /\ IsDigits(parts[1]) /\ IsDigits(parts[2])
                /\ parts[1] \o parts[2] # ""
      THEN Rat(DigitsValue(parts[1]) * Pow10(Len(parts[2])) + DigitsValue(parts[2]),
               Pow10(Len(parts[2])))
      ELSE NaN

\* the unary + of a string (ToNumber): white space is trimmed, the empty
\* string is 0, a signed decimal literal has its value, anything else is NaN
StringToNumber(str) ==
  LET t == Trim(str)
  IN  IF t = "" THEN Zero
      ELSE IF CharAt(t, 1) = "-" THEN Neg(UnsignedToNumber(SubSeq(t, 2, Len(t))))
      ELSE IF CharAt(t, 1) = "+" THEN UnsignedToNumber(SubSeq(t, 2, Len(t)))
      ELSE UnsignedToNumber(t)

\* the most decimal places a number of the model has
MaxDecimals == 5

\* a natural number in exactly k digits
RECURSIVE PadDigits(_, _)
PadDigits(n, k) ==
  IF k = 0 THEN "" ELSE PadDigits(n \div 10, k - 1) \o Digits[(n % 10) + 1]

\* Number.prototype.toString of a decimal number (no exponent form)
NumberToString(x) ==
  IF ~IsNum(x) THEN "NaN"
  ELSE LET k == CHOOSE j \in 0..MaxDecimals :
                  /\ (AbsInt(x[1]) * Pow10(j)) % x[2] = 0
                  /\ \A i \in 0..(j - 1) : (AbsInt(x[1]) * Pow10(i)) % x[2] # 0
           m == (AbsInt(x[1]) * Pow10(k)) \div x[2]
       IN  (IF x[1] < 0 THEN "-" ELSE "")
             \o NumToString(m \div Pow10(k))
             \o (IF k = 0 THEN "" ELSE "." \o PadDigits(m % Pow10(k), k))

Value(t, str, n, a) == [t |-> t, s |-> str, n |-> n, a |-> a]

Undef == Value("undefined", "", Zero, <<>>)

Null == Value("null", "", Zero, <<>>)

Str(str) == Value("string", str, Zero, <<>>)

Num(x) == Value("number", "", x, <<>>)

Bool(b) == Value("boolean", IF b THEN "true" ELSE "false", Zero, <<>>)

ArrayOfNumbers(a) == Value("array", "", Zero, a)

\* a function or object known by its name
Obj(name) == Value("object", name, Zero, <<>>)

\* value == null
IsNullish(v) == v.t \in {"undefined", "null"}

\* the string a template literal makes of a value
TemplateString(v) ==
  CASE v.t = "undefined" -> "undefined"
    [] v.t = "null" -> "null"
    [] v.t = "number" -> NumberToString(v.n)
    [] v.t = "array" -> Join([i \in 1..Len(v.a) |-> NumberToString(v.a[i])], ",")
    [] OTHER -> v.s

\* the key maps of state.ts, each the <<key, value>> pairs of the object
\* literal in their order
activations ==
  << <<"relu", Obj("nn.Activations.RELU")>>,
     <<"tanh", Obj("nn.Activations.TANH")>>,
     <<"sigmoid", Obj("nn.Activations.SIGMOID")>>,
     <<"linear", Obj("nn.Activations.LINEAR")>> >>

regularizations ==
  << <<"none", Null>>,
     <<"L1", Obj("nn.RegularizationFunction.L1")>>,
     <<"L2", Obj("nn.RegularizationFunction.L2")>> >>

datasets ==
  << <<"circle", Obj("dataset.classifyCircleData")>>,
     <<"xor", Obj("dataset.classifyXORData")>>,
     <<"gauss", Obj("dataset.classifyTwoGaussData")>>,
     <<"spiral", Obj("dataset.classifySpiralData")>> >>

regDatasets ==
  << <<"reg-plane", Obj("dataset.regressPlane")>>,
     <<"reg-gauss", Obj("dataset.regressGaussian")>> >>

\* enum Problem: CLASSIFICATION is 0, REGRESSION is 1
problems ==
  << <<"classification", Num(Zero)>>,
     <<"regression", Num(One)>> >>

\* what every object literal inherits from Object.prototype
ObjectPrototypeKeys ==
  { "constructor", "hasOwnProperty", "isPrototypeOf", "propertyIsEnumerable",
    "toLocaleString", "toString", "valueOf" }

OwnKeys(keyMap) == { keyMap[i][1] : i \in 1..Len(keyMap) }

\* key in keyMap: own and inherited properties
KeyIn(key, keyMap) == key \in OwnKeys(keyMap) \cup ObjectPrototypeKeys

\* keyMap[key]
KeyValue(keyMap, key) ==
  IF key \in OwnKeys(keyMap)
  THEN keyMap[CHOOSE i \in 1..Len(keyMap) : keyMap[i][1] = key][2]
  ELSE IF key \in ObjectPrototypeKeys THEN Obj("Object.prototype." \o key)
  ELSE Undef

\* getKeyFromValue(obj, value): the first own key whose value is the value
getKeyFromValue(obj, value) ==
  LET hits == { i \in 1..Len(obj) : obj[i][2] = value }
  IN  IF hits = {} THEN Undef
      ELSE Str(obj[CHOOSE i \in hits : \A j \in hits : i <= j][1])

Prop(name, type, keyMap) == [name |-> name, type |-> type, keyMap |-> keyMap]

\* State.PROPS
PROPS ==
  << Prop("activation", "OBJECT", activations),
     Prop("regularization", "OBJECT", regularizations),
     Prop("batchSize", "NUMBER", <<>>),
     Prop("dataset", "OBJECT", datasets),
     Prop("regDataset", "OBJECT", regDatasets),
     Prop("learningRate", "NUMBER", <<>>),
     Prop("regularizationRate", "NUMBER", <<>>),
     Prop("noise", "NUMBER", <<>>),
     Prop("networkShape", "ARRAY_NUMBER", <<>>),
     Prop("seed", "STRING", <<>>),
     Prop("showTestData", "BOOLEAN", <<>>),
     Prop("discretize", "BOOLEAN", <<>>),
     Prop("percTrainData", "NUMBER", <<>>),
     Prop("x", "BOOLEAN", <<>>),
     Prop("y", "BOOLEAN", <<>>),
     Prop("xTimesY", "BOOLEAN", <<>>),
     Prop("xSquared", "BOOLEAN", <<>>),
     Prop("ySquared", "BOOLEAN", <<>>),
     Prop("cosX", "BOOLEAN", <<>>),
     Prop("sinX", "BOOLEAN", <<>>),
     Prop("cosY", "BOOLEAN", <<>>),
     Prop("sinY", "BOOLEAN", <<>>),
     Prop("collectStats", "BOOLEAN", <<>>),
     Prop("tutorial", "STRING", <<>>),
     Prop("problem", "OBJECT", problems),
     Prop("initZero", "BOOLEAN", <<>>),
     Prop("hideText", "BOOLEAN", <<>>) >>

\* new State(): props holds the fields, added the names of the properties
\* added later, in the order they were added
NewState ==
  [ props |->
      [ learningRate |-> Num(Rat(3, 100)),
        regularizationRate |-> Num(Zero),
        showTestData |-> Bool(FALSE),
        noise |-> Num(Zero),
        batchSize |-> Num(Rat(10, 1)),
        discretize |-> Bool(FALSE),
        tutorial |-> Null,
        percTrainData |-> Num(Rat(50, 1)),
        activation |-> Obj("nn.Activations.TANH"),
        regularization |-> Null,
        problem |-> Num(Zero),
        initZero |-> Bool(FALSE),
        hideText |-> Bool(FALSE),
        collectStats |-> Bool(FALSE),
        numHiddenLayers |-> Num(One),
        hiddenLayerControls |-> ArrayOfNumbers(<<>>),
        networkShape |-> ArrayOfNumbers(<<Rat(4, 1), Rat(2, 1)>>),
        x |-> Bool(TRUE),
        y |-> Bool(TRUE),
        xTimesY |-> Bool(FALSE),
        xSquared |-> Bool(FALSE),
        ySquared |-> Bool(FALSE),
        cosX |-> Bool(FALSE),
        sinX |-> Bool(FALSE),
        cosY |-> Bool(FALSE),
        sinY |-> Bool(FALSE),
        dataset |-> Obj("dataset.classifyCircleData"),
        regDataset |-> Obj("dataset.regressPlane"),
        seed |-> Undef ],
    added |-> <<>> ]

\* st[name]
StateGet(st, name) == IF name \in DOMAIN st.props THEN st.props[name] ELSE Undef

\* st[name] = v
StateSet(st, name, v) ==
  [ props |-> [n \in DOMAIN st.props \cup {name} |->
                 IF n = name THEN v ELSE st.props[n]],
    added |-> IF name \in DOMAIN st.props THEN st.added ELSE Append(st.added, name) ]

\* the map of deserializeState: <<name, value>> pairs in the order the names
\* were first assigned; a value is a string or undefined
MapHas(map, name) == \E i \in 1..Len(map) : map[i][1] = name

MapGet(map, name) ==
  IF MapHas(map, name) THEN map[CHOOSE i \in 1..Len(map) : map[i][1] = name][2]
  ELSE Undef

MapSet(map, name, value) ==
  IF MapHas(map, name)
  THEN [i \in 1..Len(map) |-> IF map[i][1] = name THEN <<name, value>> ELSE map[i]]
  ELSE Append(map, <<name, value>>)

\* the loop over window.location.hash.slice(1).split("&")
RECURSIVE ParseKeyValues(_, _, _)
ParseKeyValues(keyvalues, i, map) ==
  IF i > Len(keyvalues) THEN map
  ELSE LET parts == Split(keyvalues[i], "=")
       IN  Bind(MapSet(map, parts[1],
                       IF Len(parts) >= 2 THEN Str(parts[2]) ELSE Undef),
                LAMBDA m : ParseKeyValues(keyvalues, i + 1, m))

hasKey(map, name) ==
  /\ MapHas(map, name)
  /\ ~IsNullish(MapGet(map, name))
  /\ Trim(MapGet(map, name).s) # ""

\* parseArray(value).map(Number)
parseArray(value) ==
  IF Trim(value) = "" THEN <<>>
  ELSE LET strs == Split(value, ",")
       IN  [i \in 1..Len(strs) |-> StringToNumber(strs[i])]

\* body of State.PROPS.forEach in deserializeState, for one property
DeserializeProp(st, map, prop) ==
  LET value == MapGet(map, prop.name)
  IN  CASE prop.type = "OBJECT" ->
             IF hasKey(map, prop.name) /\ KeyIn(value.s, prop.keyMap)
             THEN StateSet(st, prop.name, KeyValue(prop.keyMap, value.s))
             ELSE st
        [] prop.type = "NUMBER" ->
             IF hasKey(map, prop.name)
             THEN StateSet(st, prop.name, Num(StringToNumber(value.s)))
             ELSE st
        [] prop.type = "STRING" ->
             IF hasKey(map, prop.name) THEN StateSet(st, prop.name, value) ELSE st
        [] prop.type = "BOOLEAN" ->
             IF hasKey(map, prop.name)
             THEN StateSet(st, prop.name, Bool(value.s # "false"))
             ELSE st
        [] prop.type = "ARRAY_NUMBER" ->
             IF MapHas(map, prop.name)
             THEN StateSet(st, prop.name, ArrayOfNumbers(parseArray(value.s)))
             ELSE st

RECURSIVE DeserializeProps(_, _, _)
DeserializeProps(st, map, i) ==
  IF i > Len(PROPS) THEN st
  ELSE Bind(DeserializeProp(st, map, PROPS[i]),
            LAMBDA st1 : DeserializeProps(st1, map, i + 1))

\* getHideProps(map): the names of the map that end in "_hide"
RECURSIVE MapHideProps(_, _)
MapHideProps(map, i) ==
  IF i > Len(map) THEN <<>>
  ELSE (IF endsWith(map[i][1], HIDE_STATE_SUFFIX) THEN <<map[i][1]>> ELSE <<>>)
         \o MapHideProps(map, i + 1)

\* getHideProps(map).forEach(prop => state[prop] = map[prop] === "true")
RECURSIVE DeserializeHideProps(_, _, _, _)
DeserializeHideProps(st, map, hideProps, i) ==
  IF i > Len(hideProps) THEN st
  ELSE Bind(StateSet(st, hideProps[i], Bool(MapGet(map, hideProps[i]) = Str("true"))),
            LAMBDA st1 : DeserializeHideProps(st1, map, hideProps, i + 1))

\* parseArray(undefined) throws: an array property named without a value
DeserializeThrows(map) ==
  \E i \in 1..Len(PROPS) :
    /\ PROPS[i].type \in {"ARRAY_NUMBER", "ARRAY_STRING"}
    /\ MapHas(map, PROPS[i].name)
    /\ IsNullish(MapGet(map, PROPS[i].name))

\* State.deserializeState() on the hash h; random is what
\* Math.random().toFixed(5) gives if it is called
deserializeState(h, random) ==
  Bind(ParseKeyValues(Split(SubSeq(h, 2, Len(h)), "&"), 1, <<>>),
    LAMBDA map :
      IF DeserializeThrows(map) THEN [threw |-> TRUE, state |-> NoState]
      ELSE
        Bind(DeserializeProps(NewState, map, 1),
          LAMBDA st1 :
            Bind(DeserializeHideProps(st1, map, MapHideProps(map, 1), 1),
              LAMBDA st2 :
                Bind(StateSet(st2, "numHiddenLayers",
                              Num(Rat(Len(StateGet(st2, "networkShape").a), 1))),
                  LAMBDA st3 :
                    [threw |-> FALSE,
                     state |-> IF IsNullish(StateGet(st3, "seed"))
                               THEN StateSet(st3, "seed", Str(random))
                               ELSE st3]))))

\* body of State.PROPS.forEach in serialize: the strings pushed for one property
SerializeProp(st, prop) ==
  LET value == StateGet(st, prop.name)
  IN  IF IsNullish(value) THEN <<>>
      ELSE << prop.name \o "=" \o
                TemplateString(IF prop.type = "OBJECT"
                               THEN getKeyFromValue(prop.keyMap, value)
                               ELSE value) >>

RECURSIVE SerializeProps(_, _)
SerializeProps(st, i) ==
  IF i > Len(PROPS) THEN <<>>
  ELSE SerializeProp(st, PROPS[i]) \o SerializeProps(st, i + 1)

\* getHideProps(this): the properties of the state that end in "_hide"
StateHideProps(st) == SelectSeq(st.added, LAMBDA name : endsWith(name, HIDE_STATE_SUFFIX))

\* what window.location.hash reads after State.serialize()
serialize(st) ==
  LET hideProps == StateHideProps(st)
      props == SerializeProps(st, 1)
                 \o [i \in 1..Len(hideProps) |->
                       hideProps[i] \o "=" \o TemplateString(StateGet(st, hideProps[i]))]
      fragment == Join(props, "&")
  IN  IF fragment = "" THEN "" ELSE "#" \o fragment

---------------------------------------------------------------------------
(* Specification of the configuration in the URL: the page is opened with  *)
(* a hash made of up to MaxHashParts parts, then deserializeState and      *)
(* serialize are called in any order.                                      *)

HashParts ==
  { "", "activation=relu", "activation=toString", "regularization=none",
    "regularization=L2", "problem=regression", "batchSize=007", "noise=abc",
    "learningRate=0.5", "networkShape=4,,2", "networkShape=", "networkShape",
    "seed=a=b", "x=false", "discretize=1", "x_hide=true", "y_hide=1" }

Hashes ==
  {""} \cup { "#" \o Join(parts, "&") :
                parts \in UNION { [1..n -> HashParts] : n \in 1..MaxHashParts } }

\* values of Math.random().toFixed(5)
RandomSeeds == {"0.12345", "0.50000"}

InitState ==
  /\ hash \in Hashes
  /\ state = NoState
  /\ call = NotBuilt
  /\ network = <<>>
  /\ links = <<>>
  /\ config = <<>>
  /\ batch = [count |-> 0, inputDer |-> <<>>, errorDer |-> <<>>]
  /\ backProps = 0

DeserializeState ==
  /\ \E random \in RandomSeeds :
       \E r \in {deserializeState(hash, random)} :
         /\ state' = IF r.threw THEN state ELSE r.state
         /\ call' = [NotBuilt EXCEPT !.op = "deserializeState", !.threw = r.threw]
  /\ UNCHANGED <<network, links, config, batch, backProps, hash>>

Serialize ==
  /\ call.op \in {"deserializeState", "serialize"}
  /\ state # NoState
  /\ hash' = serialize(state)
  /\ call' = [NotBuilt EXCEPT !.op = "serialize"]
  /\ UNCHANGED <<network, links, config, batch, backProps, state>>

NextState == DeserializeState \/ Serialize

SpecState == InitState /\ [][NextState]_vars

PropNames == { PROPS[i].name : i \in 1..Len(PROPS) }

HidePropsOf(st) == { name \in DOMAIN st.props : endsWith(name, HIDE_STATE_SUFFIX) }

\* two states agree on the properties of State.PROPS, on the properties that
\* end in "_hide", and on numHiddenLayers
Agree(s1, s2) ==
  /\ \A name \in PropNames \cup {"numHiddenLayers"} :
       StateGet(s1, name) = StateGet(s2, name)
  /\ HidePropsOf(s1) = HidePropsOf(s2)
  /\ \A name \in HidePropsOf(s1) : StateGet(s1, name) = StateGet(s2, name)

\* deserializeState runs on the hash that serialize made of the current state
RoundTrip == call.op = "serialize" /\ call'.op = "deserializeState"

\* C14: configuration round trip.  When deserializeState has succeeded with
\* state s, s.serialize() followed by deserializeState() succeeds with a state
\* that agrees with s on every property of State.PROPS, on every property
\* ending in "_hide" and on numHiddenLayers.
C14_ConfigRoundTrip ==
  [][RoundTrip => (~call'.threw /\ Agree(state, state'))]_vars

\* some OBJECT property of the state holds a value that is no own value of
\* its key map
HoldsInheritedValue ==
  \E i \in 1..Len(PROPS) :
    /\ PROPS[i].type = "OBJECT"
    /\ ~IsNullish(StateGet(state, PROPS[i].name))
    /\ getKeyFromValue(PROPS[i].keyMap, StateGet(state, PROPS[i].name)) = Undef

\* the round trip of every state whose OBJECT properties hold own values of
\* their key maps
RoundTripOfOwnValues ==
  [][(RoundTrip /\ ~HoldsInheritedValue) => (~call'.threw /\ Agree(state, state'))]_vars

====
